---- MODULE Spec2Model ----
(***************************************************************************)
(* Travel-buddy front end: the App component (App.js), the axios wrapper   *)
(* (services/api.js) and the bot-reply formatter (formatBotMessage).       *)
(*                                                                         *)
(* A JavaScript string is modelled as a sequence of tokens.  The token     *)
(* " ", "\t", "\r" and "\n" are single whitespace characters; every other  *)
(* token is a run of one or more characters that neither starts nor ends   *)
(* with whitespace.  The empty string is << >>.                            *)
(***************************************************************************)
EXTENDS Integers, Sequences, FiniteSets, TLC

VARIABLES
    \* ---- App component state (useState hooks) ----
    isChat, messages, inputValue, sessionId, isTyping,
    \* ---- App environment ----
    timers,     \* pending setTimeout callbacks, each with the render it closes over
    requests,   \* every fetch(API_URL) call made so far, in order
    pending,    \* indices into requests whose await has not resumed yet
    failed,     \* indices into requests whose fetch failed
    lastSid,    \* session_id of the most recently processed successful response
    last,       \* the handler that ran in the last step, and what it did
    \* ---- services/api.js: one call of the wrapper ----
    apiPc,      \* "idle", "posting" (sendMessage awaits api.post),
                \* "getting" (testConnection awaits api.get), "done"
    apiCall,    \* the function called and its arguments
    apiHttp,    \* the HTTP requests the wrapper has issued, in order
    apiErr,     \* the error the catch block received, if any
    apiResult,  \* how the returned promise settled
    \* ---- formatBotMessage: one rendering of a bot message ----
    fmtText,    \* the text handed to formatBotMessage
    fmtOut      \* what it returned

appVars == <<isChat, messages, inputValue, sessionId, isTyping,
             timers, requests, pending, failed, lastSid, last>>

apiVars == <<apiPc, apiCall, apiHttp, apiErr, apiResult>>

fmtVars == <<fmtText, fmtOut>>

vars == <<appVars, apiVars, fmtVars>>

-----------------------------------------------------------------------------
(* Bounds *)
MaxSends  == 2      \* fetch calls per page lifetime
MaxTimers == 2      \* prompt-card timeouts pending at one time
MaxPrompt == 2      \* the prompt cards that get clicked: the first MaxPrompt
MaxTextLen == 4     \* tokens in a bot reply handed to formatBotMessage

-----------------------------------------------------------------------------
(* Strings *)
WS == {" ", "\t", "\r", "\n"}

RECURSIVE TrimStart(_)
TrimStart(s) ==
    IF s # << >> /\ Head(s) \in WS THEN TrimStart(Tail(s)) ELSE s

RECURSIVE TrimEnd(_)
TrimEnd(s) ==
    IF s # << >> /\ s[Len(s)] \in WS THEN TrimEnd(SubSeq(s, 1, Len(s) - 1)) ELSE s

\* String.prototype.trim
Trim(s) == TrimEnd(TrimStart(s))

\* JS null, where a session id is expected
Null == "<null>"

\* truthiness of a session id: null and '' are falsy
TruthySid(s) == s # Null /\ s # ""

-----------------------------------------------------------------------------
(* App.js *)
defaultPrompts == <<
    <<"Find best tourist attractions nearby">>,
    <<"Recommend local restaurants and cuisine">>,
    <<"Plan a day trip itinerary">>,
    <<"Learn about local culture and history">> >>

ErrorReply == <<"Sorry, I'm having trouble connecting to the server. Please make sure the backend is running on http://localhost:8000">>

\* what the user can type into the input field
TypedTexts == { << >>, <<" ">>, <<" ", "hi", " ">> }

\* what the server can put into a response
ServerSids == {Null, "", "s1", "s2"}
BotReplies == { <<"ok">> }

NoText == << >>

\* the values a handler created by the current render closes over
CurrentRender == [inputValue |-> inputValue, sessionId |-> sessionId, isChat |-> isChat]

Event(op, src, prompt, posted, outcome) ==
    [op |-> op, src |-> src, prompt |-> prompt, posted |-> posted, outcome |-> outcome]

AppInit ==
    /\ isChat = FALSE
    /\ messages = << >>
    /\ inputValue = << >>
    /\ sessionId = Null
    /\ isTyping = FALSE
    /\ timers = << >>
    /\ requests = << >>
    /\ pending = {}
    /\ failed = {}
    /\ lastSid = Null
    /\ last = Event("init", "-", NoText, FALSE, "-")

\* onChange={(e) => setInputValue(e.target.value)}
SetInput(v) ==
    /\ inputValue' = v
    /\ last' = Event("input", "-", NoText, FALSE, "-")
    /\ UNCHANGED <<isChat, messages, sessionId, isTyping, timers, requests, pending, failed, lastSid>>
    /\ UNCHANGED <<apiVars, fmtVars>>

\* sendMessage up to its await, run with the closure c of the render that
\* created it; getBotResponse's fetch is issued with c.sessionId
sendMessage(c, src, prompt) ==
    LET text == Trim(c.inputValue) IN
    IF text = << >>
    THEN /\ last' = Event("sendMessage", src, prompt, FALSE, "-")
         /\ UNCHANGED <<isChat, messages, inputValue, sessionId, isTyping,
                        requests, pending, failed, lastSid>>
    ELSE /\ Len(requests) < MaxSends
         /\ isChat' = (IF ~c.isChat THEN TRUE ELSE isChat)
         /\ messages' = Append(messages, [text |-> text, isUser |-> TRUE])
         /\ inputValue' = << >>
         /\ isTyping' = TRUE
         /\ requests' = Append(requests, [message |-> text, session_id |-> c.sessionId])
         /\ pending' = pending \cup {Len(requests) + 1}
         /\ last' = Event("sendMessage", src, prompt, TRUE, "-")
         /\ UNCHANGED <<sessionId, failed, lastSid>>

\* the send button: onClick={sendMessage}
ClickSend ==
    /\ sendMessage(CurrentRender, "button", NoText)
    /\ UNCHANGED timers
    /\ UNCHANGED <<apiVars, fmtVars>>

\* onKeyDown={handleKeyPress}
handleKeyPress(key, shiftKey) ==
    /\ IF key = "Enter" /\ ~shiftKey
       THEN /\ sendMessage(CurrentRender, "key", NoText)
            /\ UNCHANGED timers
       ELSE /\ last' = Event("keydown", "-", NoText, FALSE, "-")
            /\ UNCHANGED <<isChat, messages, inputValue, sessionId, isTyping,
                           timers, requests, pending, failed, lastSid>>
    /\ UNCHANGED <<apiVars, fmtVars>>

\* a prompt card of the welcome view: onClick={() => handlePromptClick(prompt)};
\* the callback handed to setTimeout calls the sendMessage of the render
\* that created this click handler
handlePromptClick(idx) ==
    /\ ~isChat
    /\ Len(timers) < MaxTimers
    /\ inputValue' = defaultPrompts[idx]
    /\ timers' = Append(timers, [closure |-> CurrentRender, prompt |-> defaultPrompts[idx]])
    /\ last' = Event("promptClick", "-", defaultPrompts[idx], FALSE, "-")
    /\ UNCHANGED <<isChat, messages, sessionId, isTyping, requests, pending, failed, lastSid>>
    /\ UNCHANGED <<apiVars, fmtVars>>

\* the 100 ms timeout of handlePromptClick expires; equal delays fire in
\* the order they were set
TimerFire ==
    /\ timers # << >>
    /\ sendMessage(Head(timers).closure, "timer", Head(timers).prompt)
    /\ timers' = Tail(timers)
    /\ UNCHANGED <<apiVars, fmtVars>>

\* the ways a fetch can settle: resolved with an OK status and a JSON body
\* {response, session_id}; rejected; resolved with a non-OK status; resolved
\* with a body that response.json() rejects
Failure(kind) == [kind |-> kind, response |-> NoText, session_id |-> Null]
Outcomes ==
    [kind : {"ok"}, response : BotReplies, session_id : ServerSids]
        \cup { Failure(k) : k \in {"reject", "http", "badjson"} }

\* getBotResponse with the status check moved out of the try block
getBotResponse_NoCatch(o) ==
    IF o.kind = "ok"
    THEN [threw |-> FALSE, value |-> o.response,
          setSid |-> TruthySid(o.session_id), sid |-> o.session_id]
    ELSE [threw |-> (o.kind = "http"), value |-> ErrorReply, setSid |-> FALSE, sid |-> Null]

\* getBotResponse from the point its fetch settled with outcome o: whether
\* it throws, the value it returns, and whether it calls setSessionId
getBotResponse(o) ==
    IF o.kind = "ok"
    THEN [threw |-> FALSE, value |-> o.response,
          setSid |-> TruthySid(o.session_id), sid |-> o.session_id]
    ELSE [threw |-> FALSE, value |-> ErrorReply, setSid |-> FALSE, sid |-> Null]

\* Settle with a retry: a failed request is posted once more
Settle_Retry(i, o) ==
    LET r == getBotResponse(o)
        again == o.kind # "ok" /\ Len(requests) < MaxSends IN
    /\ i \in pending
    /\ requests' = (IF again THEN Append(requests, requests[i]) ELSE requests)
    /\ pending' = (pending \ {i}) \cup (IF again THEN {Len(requests) + 1} ELSE {})
    /\ failed' = (IF o.kind = "ok" THEN failed ELSE failed \cup {i})
    /\ lastSid' = (IF o.kind = "ok" /\ TruthySid(o.session_id) THEN o.session_id ELSE lastSid)
    /\ sessionId' = (IF r.setSid THEN r.sid ELSE sessionId)
    /\ isTyping' = FALSE
    /\ messages' = Append(messages, [text |-> r.value, isUser |-> FALSE])
    /\ last' = Event("settle", "-", NoText, FALSE, o.kind)
    /\ UNCHANGED <<isChat, inputValue, timers>>
    /\ UNCHANGED <<apiVars, fmtVars>>

\* the fetch of request i settles with outcome o and sendMessage resumes
\* after its await
Settle(i, o) ==
    LET r == getBotResponse(o) IN
    /\ i \in pending
    /\ pending' = pending \ {i}
    /\ failed' = (IF o.kind = "ok" THEN failed ELSE failed \cup {i})
    /\ lastSid' = (IF o.kind = "ok" /\ TruthySid(o.session_id) THEN o.session_id ELSE lastSid)
    /\ sessionId' = (IF r.setSid THEN r.sid ELSE sessionId)
    /\ IF r.threw
       THEN UNCHANGED <<isTyping, messages>>
       ELSE /\ isTyping' = FALSE
            /\ messages' = Append(messages, [text |-> r.value, isUser |-> FALSE])
    /\ last' = Event("settle", "-", NoText, FALSE, o.kind)
    /\ UNCHANGED <<isChat, inputValue, timers, requests>>
    /\ UNCHANGED <<apiVars, fmtVars>>

AppNext ==
    \/ \E v \in TypedTexts : SetInput(v)
    \/ ClickSend
    \/ \E key \in {"Enter", "a"}, shiftKey \in BOOLEAN : handleKeyPress(key, shiftKey)
    \/ \E idx \in 1..MaxPrompt : handlePromptClick(idx)
    \/ TimerFire
    \/ \E i \in pending, o \in Outcomes : Settle(i, o)

\* ---- a server that keeps conversations ----
\* the session id the server makes up for the i-th request when that
\* request carries none
FreshSid(i) == "s" \o ToString(i)

\* how the fetch of request i can settle against a server that echoes the
\* session_id it is given and issues a fresh one when given none; the
\* transport can still fail
EchoOutcomes(i) ==
    LET given == requests[i].session_id
        answer == IF TruthySid(given) THEN given ELSE FreshSid(i) IN
    [kind : {"ok"}, response : BotReplies, session_id : {answer}]
        \cup { Failure(k) : k \in {"reject", "http", "badjson"} }

\* the App component against that server
EchoNext ==
    \/ \E v \in TypedTexts : SetInput(v)
    \/ ClickSend
    \/ \E key \in {"Enter", "a"}, shiftKey \in BOOLEAN : handleKeyPress(key, shiftKey)
    \/ \E idx \in 1..MaxPrompt : handlePromptClick(idx)
    \/ TimerFire
    \/ \E i \in pending : \E o \in EchoOutcomes(i) : Settle(i, o)

-----------------------------------------------------------------------------
(* JavaScript values, as far as services/api.js looks at them *)
JUndef  == [t |-> "undefined"]
JNull   == [t |-> "null"]
JStr(s) == [t |-> "string", s |-> s]
JNum(n) == [t |-> "number", n |-> n]
JArr(a) == [t |-> "array", a |-> a]
JObj(o) == [t |-> "object", o |-> o]      \* o: sequence of [k |-> key, v |-> value]
Prop(k, v) == [k |-> k, v |-> v]

Truthy(v) ==
    CASE v.t = "undefined" -> FALSE
      [] v.t = "null"      -> FALSE
      [] v.t = "string"    -> v.s # << >>
      [] v.t = "number"    -> v.n # 0
      [] OTHER             -> TRUE

\* v[key] / v?.[key] for a value that is not null or undefined
Get(v, key) ==
    IF v.t = "object" /\ \E i \in 1..Len(v.o) : v.o[i].k = key
    THEN v.o[CHOOSE i \in 1..Len(v.o) : v.o[i].k = key].v
    ELSE JUndef

\* String.prototype.includes for a needle that is one token
Includes(s, needle) == \E i \in 1..Len(s) : s[i] = needle

RECURSIVE JSONStringify(_)
RECURSIVE StringifyItems(_)
RECURSIVE StringifyProps(_)

StringifyItems(a) ==
    IF a = << >> THEN << >>
    ELSE JSONStringify(Head(a))
           \o (IF Len(a) > 1 THEN <<",">> ELSE << >>) \o StringifyItems(Tail(a))

StringifyProps(o) ==
    IF o = << >> THEN << >>
    ELSE <<"\"", Head(o).k, "\"", ":">> \o JSONStringify(Head(o).v)
           \o (IF Len(o) > 1 THEN <<",">> ELSE << >>) \o StringifyProps(Tail(o))

\* JSON.stringify of a value that came out of JSON.parse
JSONStringify(v) ==
    CASE v.t = "string" -> <<"\"">> \o v.s \o <<"\"">>
      [] v.t = "number" -> <<ToString(v.n)>>
      [] v.t = "null"   -> <<"null">>
      [] v.t = "array"  -> <<"[">> \o StringifyItems(v.a) \o <<"]">>
      [] v.t = "object" -> <<"{">> \o StringifyProps(v.o) \o <<"}">>
      [] OTHER          -> <<"undefined">>

\* String(v) for a v that is not an array, as Array.prototype.join applies it
ToStr(v) ==
    CASE v.t = "string" -> v.s
      [] v.t = "number" -> <<ToString(v.n)>>
      [] v.t = "object" -> <<"[object Object]">>
      [] OTHER          -> <<v.t>>

RECURSIVE Join(_, _)
\* Array.prototype.join over an array of strings
Join(a, sep) ==
    IF a = << >> THEN << >>
    ELSE Head(a) \o (IF Len(a) > 1 THEN sep ELSE << >>) \o Join(Tail(a), sep)

-----------------------------------------------------------------------------
(* services/api.js *)
CannotConnect ==
    <<"Cannot connect to backend server. Please ensure it is running on http://localhost:8000">>
CorsMessage ==
    <<"Unable to connect to the server. This might be a CORS issue. Please check: 1) Backend is running on http://localhost:8000, 2) CORS is properly configured, 3) Check browser console Network tab for blocked requests.">>
MustBeString == <<"Message must be a non-empty string">>
CannotBeEmpty == <<"Message cannot be empty">>

NoCode == "-"

\* an error as the catch blocks see it: response (and its status and data)
\* and request may be absent, code may be undefined
AxiosError(hasResponse, status, data, hasRequest, code, message) ==
    [hasResponse |-> hasResponse, status |-> status, data |-> data,
     hasRequest |-> hasRequest, code |-> code, message |-> message]

\* new Error(message): no response, no request, no code
PlainError(message) == AxiosError(FALSE, 0, JUndef, FALSE, NoCode, message)

NoError == PlainError(<<"-">>)

\* detailValue.map(d => ...) of sendMessage's catch block
RECURSIVE MapDetail(_)
MapDetail(a) ==
    IF a = << >> THEN << >>
    ELSE LET d == Head(a)
             item == IF d.t = "string" THEN d.s
                     ELSE IF Truthy(Get(d, "msg"))
                          THEN ToStr(Get(d, "msg"))
                          ELSE JSONStringify(d)
         IN <<item>> \o MapDetail(Tail(a))

\* the text sendMessage's catch block builds from error.response.data
errorDetail(data) ==
    IF ~Truthy(data) THEN <<"Failed to send message">>
    ELSE IF data.t = "string" THEN data.s
    ELSE IF Truthy(Get(data, "detail"))
         THEN LET detailValue == Get(data, "detail") IN
              IF detailValue.t = "array" THEN Join(MapDetail(detailValue.a), <<",", " ">>)
              ELSE IF detailValue.t = "string" THEN detailValue.s
              ELSE JSONStringify(detailValue)
    ELSE IF Truthy(Get(data, "message"))
         THEN LET msg == Get(data, "message") IN
              IF msg.t = "string" THEN msg.s ELSE JSONStringify(msg)
    ELSE JSONStringify(data)

\* the message of the Error sendMessage's catch block throws for error
sendMessageCatch(error) ==
    IF error.hasResponse THEN errorDetail(error.data)
    ELSE IF error.hasRequest THEN CorsMessage
    ELSE IF \/ error.code = "ECONNREFUSED"
            \/ Includes(error.message, "Network Error")
            \/ Includes(error.message, "ERR_CONNECTION_REFUSED")
         THEN CannotConnect
    ELSE <<"An unexpected error occurred:", " ">>
            \o (IF error.message # << >> THEN error.message ELSE <<"Error">>)

\* the message of the Error testConnection's catch block throws for error
testConnectionCatch(error) ==
    IF error.code = "ECONNREFUSED" \/ Includes(error.message, "Network Error")
    THEN CannotConnect
    ELSE IF error.hasResponse
         THEN <<"Backend responded with error:", " ", ToString(error.status), " ", "-", " ">>
                 \o JSONStringify(error.data)
    ELSE <<"Connection failed:", " ">> \o error.message

\* ---- the calls and failures explored ----
ApiMessages ==
    { JUndef, JNull, JNum(0), JNum(5), JObj(<< >>),
      JStr(<< >>), JStr(<<" ">>), JStr(<<"\t", " ">>), JStr(<<"hi">>), JStr(<<" ", "hi", " ">>) }

ApiSessionIds == {Null, "", "s1"}

\* bodies of HTTP error responses
ErrorBodies ==
    { JUndef, JNull, JStr(<< >>), JStr(<<"Internal Server Error">>),
      JObj(<<Prop("detail", JStr(<<"Message cannot be empty">>))>>),
      JObj(<<Prop("detail", JStr(<< >>))>>),
      JObj(<<Prop("detail", JArr(<< >>))>>),
      JObj(<<Prop("detail", JArr(<<JStr(<< >>)>>))>>),
      JObj(<<Prop("detail", JArr(<<JStr(<<"a">>), JStr(<<"b">>)>>))>>),
      JObj(<<Prop("detail", JArr(<<JObj(<<Prop("msg", JStr(<<"field required">>))>>)>>))>>),
      JObj(<<Prop("detail", JArr(<<JObj(<<Prop("loc", JNum(1))>>), JNull>>))>>),
      JObj(<<Prop("detail", JObj(<<Prop("code", JNum(5))>>))>>),
      JObj(<<Prop("detail", JNum(7))>>),
      JObj(<<Prop("message", JStr(<<"boom">>))>>),
      JObj(<<Prop("message", JObj(<<Prop("a", JNum(1))>>))>>),
      JObj(<<Prop("error", JStr(<<"x">>))>>),
      JObj(<< >>), JArr(<< >>), JNum(0), JNum(3) }

HttpErrors ==
    { AxiosError(TRUE, st, d, TRUE, "ERR_BAD_RESPONSE", <<"Request failed with status code", " ", ToString(st)>>) :
        st \in {422, 500}, d \in ErrorBodies }

\* failures without a response: connection refused, network error, the
\* 30000 ms timeout of the axios instance, an error while setting up the request
TransportErrors ==
    { AxiosError(FALSE, 0, JUndef, rq, c, m) :
        rq \in BOOLEAN,
        c \in {NoCode, "ECONNREFUSED", "ERR_NETWORK", "ECONNABORTED"},
        m \in { <<"Network Error">>, <<"connect", " ", "ECONNREFUSED">>,
                <<"timeout of 30000ms exceeded">>, << >> } }

ApiInit ==
    /\ apiPc = "idle"
    /\ apiCall = [fn |-> "-", message |-> JUndef, sessionId |-> Null]
    /\ apiHttp = << >>
    /\ apiErr = NoError
    /\ apiResult = [state |-> "pending", message |-> << >>]

Rejected(message) == [state |-> "rejected", message |-> message]
Resolved == [state |-> "resolved", message |-> << >>]

\* sendMessage(message, sessionId) up to its await, or to the rejection when
\* the validation throws into the catch block
ApiSendMessage(message, sid) ==
    /\ apiPc = "idle"
    /\ apiCall' = [fn |-> "sendMessage", message |-> message, sessionId |-> sid]
    /\ IF ~Truthy(message) \/ message.t # "string"
       THEN /\ apiErr' = PlainError(MustBeString)
            /\ apiResult' = Rejected(sendMessageCatch(PlainError(MustBeString)))
            /\ apiPc' = "done"
            /\ UNCHANGED apiHttp
       ELSE IF Trim(message.s) = << >>
       THEN /\ apiErr' = PlainError(CannotBeEmpty)
            /\ apiResult' = Rejected(sendMessageCatch(PlainError(CannotBeEmpty)))
            /\ apiPc' = "done"
            /\ UNCHANGED apiHttp
       ELSE /\ apiHttp' = Append(apiHttp,
                [method |-> "POST", url |-> "/chat", message |-> Trim(message.s),
                 session_id |-> (IF TruthySid(sid) THEN sid ELSE Null)])
            /\ apiPc' = "posting"
            /\ UNCHANGED <<apiErr, apiResult>>
    /\ UNCHANGED <<appVars, fmtVars>>

\* api.post resolves: sendMessage returns response.data
ApiPostResolves ==
    /\ apiPc = "posting"
    /\ apiResult' = Resolved
    /\ apiPc' = "done"
    /\ UNCHANGED <<apiCall, apiHttp, apiErr>>
    /\ UNCHANGED <<appVars, fmtVars>>

\* api.post rejects with error: the catch block of sendMessage
ApiPostRejects(error) ==
    /\ apiPc = "posting"
    /\ apiErr' = error
    /\ apiResult' = Rejected(sendMessageCatch(error))
    /\ apiPc' = "done"
    /\ UNCHANGED <<apiCall, apiHttp>>
    /\ UNCHANGED <<appVars, fmtVars>>

\* testConnection up to its await
ApiTestConnection ==
    /\ apiPc = "idle"
    /\ apiCall' = [fn |-> "testConnection", message |-> JUndef, sessionId |-> Null]
    /\ apiHttp' = Append(apiHttp,
            [method |-> "GET", url |-> "/health", message |-> << >>, session_id |-> Null])
    /\ apiPc' = "getting"
    /\ UNCHANGED <<apiErr, apiResult>>
    /\ UNCHANGED <<appVars, fmtVars>>

\* api.get resolves: testConnection returns response.data
ApiGetResolves ==
    /\ apiPc = "getting"
    /\ apiResult' = Resolved
    /\ apiPc' = "done"
    /\ UNCHANGED <<apiCall, apiHttp, apiErr>>
    /\ UNCHANGED <<appVars, fmtVars>>

\* api.get rejects with error: the catch block of testConnection
ApiGetRejects(error) ==
    /\ apiPc = "getting"
    /\ apiErr' = error
    /\ apiResult' = Rejected(testConnectionCatch(error))
    /\ apiPc' = "done"
    /\ UNCHANGED <<apiCall, apiHttp>>
    /\ UNCHANGED <<appVars, fmtVars>>

ApiNext ==
    \/ \E m \in ApiMessages, sid \in ApiSessionIds : ApiSendMessage(m, sid)
    \/ ApiPostResolves
    \/ \E e \in HttpErrors \cup TransportErrors : ApiPostRejects(e)
    \/ ApiTestConnection
    \/ ApiGetResolves
    \/ \E e \in HttpErrors \cup TransportErrors : ApiGetRejects(e)

-----------------------------------------------------------------------------
(* formatBotMessage (App.js) *)
\* "U+2022" is the character BULLET
BulletMarkers == {"-", "U+2022", "*"}

HeaderKeywords ==
    {"Accommodation", "Transportation", "Budget", "Tip", "Tips",
     "Itinerary", "Places", "Restaurants", "Hotels"}

\* the /i flag of the header pattern, on the keyword tokens explored
FoldCase(tok) == IF tok = "tips" THEN "Tips" ELSE tok

Digits == {"0", "1", "2", "3", "4", "5", "6", "7", "8", "9"}

\* /^(Day \d+|Accommodation|Transportation|Budget|Tips?|Itinerary|Places|Restaurants|Hotels):/i
\* a number is one token made of digits; the tokens explored use one digit
HeaderPattern(line) ==
    \/ /\ Len(line) >= 2
       /\ FoldCase(line[1]) \in HeaderKeywords
       /\ line[2] = ":"
    \/ /\ Len(line) >= 4
       /\ FoldCase(line[1]) = "Day" /\ line[2] = " " /\ line[3] \in Digits
       /\ line[4] = ":"

StartsWith(line, tok) == line # << >> /\ line[1] = tok
StartsWith2(line, t1, t2) == Len(line) >= 2 /\ line[1] = t1 /\ line[2] = t2
EndsWith(line, tok) == line # << >> /\ line[Len(line)] = tok

RECURSIVE Split(_, _)
\* String.prototype.split(sep) for a one-character separator
Split(text, sep) ==
    IF \E i \in 1..Len(text) : text[i] = sep
    THEN LET i == CHOOSE j \in 1..Len(text) :
                    text[j] = sep /\ \A k \in 1..(j - 1) : text[k] # sep
         IN <<SubSeq(text, 1, i - 1)>> \o Split(SubSeq(text, i + 1, Len(text)), sep)
    ELSE <<text>>

\* trimmedLine.replace(/^[-U+2022*]\s*/, '')
StripMarker(line) ==
    IF line # << >> /\ line[1] \in BulletMarkers THEN TrimStart(Tail(line)) ELSE line

Element(kind, key, text) == [kind |-> kind, key |-> key, text |-> text]
Dropped == Element("null", 0, << >>)

\* the callback of lines.map: the element for one line, or null
formatLine(line, index) ==
    LET trimmedLine == Trim(line) IN
    IF trimmedLine = << >> THEN Dropped
    ELSE IF \E m \in BulletMarkers : StartsWith2(trimmedLine, m, " ")
    THEN LET bulletContent == Trim(StripMarker(trimmedLine)) IN
         IF bulletContent = << >> THEN Dropped
         ELSE Element("bulletPoint", index, bulletContent)
    ELSE IF EndsWith(trimmedLine, ":") \/ HeaderPattern(trimmedLine)
    THEN Element("sectionHeader", index, trimmedLine)
    ELSE IF \A m \in BulletMarkers : ~StartsWith(trimmedLine, m)
    THEN Element("bulletPoint", index, trimmedLine)
    ELSE Dropped

\* Array.prototype.filter(Boolean) over the mapped lines
RECURSIVE FilterBoolean(_)
FilterBoolean(els) ==
    IF els = << >> THEN << >>
    ELSE (IF Head(els) = Dropped THEN << >> ELSE <<Head(els)>>) \o FilterBoolean(Tail(els))

\* formatBotMessage: a falsy text is returned as it is, anything else
\* becomes a wrapper around the elements of its lines; keys are 0-based
formatBotMessage(text) ==
    IF text = << >> THEN [wrapped |-> FALSE, children |-> << >>]
    ELSE LET lines == Split(text, "\n") IN
         [wrapped |-> TRUE,
          children |-> FilterBoolean([i \in 1..Len(lines) |-> formatLine(lines[i], i - 1)])]

\* the characters bot replies are made of in the exploration
FmtAlphabet == {"-", "*", " ", "\n", ":", "a", "Tips"}

RECURSIVE TextsUpTo(_)
TextsUpTo(n) ==
    IF n = 0 THEN { << >> }
    ELSE LET shorter == TextsUpTo(n - 1) IN
         shorter \cup { Append(t, c) : t \in { u \in shorter : Len(u) = n - 1 }, c \in FmtAlphabet }

NotRendered == [done |-> FALSE, wrapped |-> FALSE, children |-> << >>]

\* no bot message to render
FmtIdle ==
    /\ fmtText = << >>
    /\ fmtOut = NotRendered

\* a bot message with some text is about to be rendered
FmtInit ==
    /\ fmtText \in TextsUpTo(MaxTextLen)
    /\ fmtOut = NotRendered

\* the bot message is rendered: {formatBotMessage(msg.text)}
RenderBotMessage ==
    /\ ~fmtOut.done
    /\ fmtOut' = [done |-> TRUE] @@ formatBotMessage(fmtText)
    /\ UNCHANGED fmtText
    /\ UNCHANGED <<appVars, apiVars>>

FmtNext == RenderBotMessage

-----------------------------------------------------------------------------
(* Specifications *)

\* the App component, with the wrapper not called
Init == AppInit /\ ApiInit /\ FmtIdle
Next == AppNext
Spec == Init /\ [][Next]_vars

\* the event loop runs an expired timeout; nothing obliges the server to answer
FairSpec == Spec /\ WF_vars(TimerFire)

\* the App component against a server that echoes session ids
EchoSpec == Init /\ [][EchoNext]_vars

\* one call of services/api.js, with the App component left alone
ApiSpec == Init /\ [][ApiNext]_vars

\* renderings of bot messages by formatBotMessage
FmtStart == AppInit /\ ApiInit /\ FmtInit
FmtSpec == FmtStart /\ [][FmtNext]_vars

-----------------------------------------------------------------------------
(* Properties of the App component *)

UserMessages == { k \in 1..Len(messages) : messages[k].isUser }
LastMessage == messages[Len(messages)]
LastRequest == requests[Len(requests)]
SendRan == last.op = "sendMessage"

\* C1: when a chat request fails (fetch rejected, non-OK status, body that
\* does not parse), the resumed sendMessage appends exactly one bot message
\* with the fixed apology, sets isTyping to false and leaves sessionId alone.
C1_FailureCaught ==
    [][ (last'.op = "settle" /\ last'.outcome # "ok")
          => /\ messages' = Append(messages, [text |-> ErrorReply, isUser |-> FALSE])
             /\ isTyping' = FALSE
             /\ sessionId' = sessionId ]_vars

C1_Witness ==
    /\ last.op = "settle" /\ last.outcome = "http"
    /\ sessionId # Null
    /\ LastMessage = [text |-> ErrorReply, isUser |-> FALSE]

\* C2: no retry: the number of POST /chat requests issued equals the number
\* of user messages in the list, and no failed request is in flight again.
C2_NoRetry ==
    /\ Len(requests) = Cardinality(UserMessages)
    /\ failed \cap pending = {}

C2_Witness ==
    /\ failed # {}
    /\ Len(requests) = 2
    /\ last.op = "settle" /\ last.outcome = "reject"

\* C3: every chat request carries the session_id of the most recently
\* processed successful response that had a non-empty one, and null before
\* any such response.
C3_SessionRoundTrip ==
    (SendRan /\ last.posted) => LastRequest.session_id = lastSid

\* C4: every user message sent is eventually followed by its bot message,
\* even when the server never answers.
C4_TimeoutBound ==
    \A i \in 1..MaxSends : (i \in pending) ~> (i \notin pending)

\* C5: the delayed sendMessage of a prompt click appends the clicked prompt
\* as a user message, switches to the chat view and posts the prompt text.
C5_PromptSent ==
    (SendRan /\ last.src = "timer")
        => /\ last.posted
           /\ isChat
           /\ LastMessage = [text |-> last.prompt, isUser |-> TRUE]
           /\ LastRequest.message = last.prompt

\* C10: sendMessage invoked while the input field is empty or whitespace-only
\* issues no request and leaves messages, isChat, isTyping, sessionId and
\* inputValue unchanged.
C10_EmptyNoOp ==
    [][ (last'.op = "sendMessage" /\ Trim(inputValue) = << >>)
          => UNCHANGED <<messages, isChat, isTyping, sessionId, inputValue, requests>> ]_vars

\* C11: against a server that echoes the session_id it is given and issues
\* a fresh one when given none, sessionId never changes once it is non-null,
\* and all requests that carry a non-null session_id carry the same one,
\* also when a message is sent before the previous response has arrived.
C11_OneConversation ==
    [][ /\ sessionId # Null => sessionId' = sessionId
        /\ \A i, j \in 1..Len(requests') :
              (requests'[i].session_id # Null /\ requests'[j].session_id # Null)
                 => requests'[i].session_id = requests'[j].session_id ]_vars

-----------------------------------------------------------------------------
(* Properties of services/api.js *)

SendMessageDone == apiPc = "done" /\ apiCall.fn = "sendMessage"

C7_ValidationRejects ==
    LET m == apiCall.message IN
    (SendMessageDone /\ (m.t # "string" \/ Trim(m.s) = << >>))
        => /\ apiHttp = << >>
           /\ apiResult.state = "rejected"
           /\ apiResult.message =
                (IF m.t # "string" \/ m.s = << >> THEN MustBeString ELSE CannotBeEmpty)

\* C8: for a failure without an HTTP response whose code is ECONNREFUSED or
\* whose message contains 'Network Error', sendMessage rejects with the
\* 'Cannot connect to backend server...' message, which is also what
\* testConnection throws for it, with or without error.request.
C8_CannotConnect ==
    (/\ SendMessageDone
     /\ apiHttp # << >>
     /\ ~apiErr.hasResponse
     /\ (apiErr.code = "ECONNREFUSED" \/ Includes(apiErr.message, "Network Error")))
        => /\ apiResult = Rejected(CannotConnect)
           /\ apiResult.message = testConnectionCatch(apiErr)

-----------------------------------------------------------------------------
(* Properties of formatBotMessage *)

FmtLines == Split(fmtText, "\n")

\* the 0-based indices of the lines that carry content: lines with a
\* character that is neither whitespace nor a bullet marker (so a line made
\* of markers only counts as a bullet with empty content)
ContentLines ==
    { i \in 0..(Len(FmtLines) - 1) :
        \E k \in 1..Len(FmtLines[i + 1]) : FmtLines[i + 1][k] \notin WS \cup BulletMarkers }

\* C9: every line that is non-empty after trimming and is not a bare bullet
\* marker is rendered as exactly one element, a bullet item or a section
\* header, and the elements keep the order of the lines.
C9_NoContentLost ==
    fmtOut.done =>
        LET ch == fmtOut.children IN
        /\ \A i \in ContentLines :
              Cardinality({ j \in 1..Len(ch) : ch[j].key = i }) = 1
        /\ \A j \in 1..Len(ch) : ch[j].kind \in {"bulletPoint", "sectionHeader"}
        /\ \A j, k \in 1..Len(ch) : j < k => ch[j].key < ch[k].key

====
